---- MODULE Spec2Model ----
(***************************************************************************)
(* Model of AreaBuildingVector2LocationPoint.py: a window that holds one   *)
(* basemap with its extent, and a load-overlay action that reprojects a    *)
(* building layer onto the basemap, derives its centroids and saves them.  *)
(* Every handler (open_basemap, open_shp_file, clear_basemap) is one       *)
(* action; what the user answers in the dialogs, what the files contain    *)
(* and where the libraries raise are the inputs.                           *)
(***************************************************************************)
EXTENDS Integers, Sequences, FiniteSets, TLC

(* ---------------- bounds of the inputs ---------------- *)
NumFiles == 4
MaxCoord == 2

(* ---------------- Python values ---------------- *)
\* Python None for an optional value; a present value x is <<x>>.
None == <<>>
Some(x) == <<x>>
\* the crs attribute of a dataset without a coordinate reference system
NoCRS == "None"
CRSs == {"EPSG:4326", "EPSG:3857"}

\* a pair of floats (lo, hi); nan marks the pair (nan, nan)
Lim(lo, hi) == [lo |-> lo, hi |-> hi, nan |-> FALSE]
NanLim == [lo |-> 0, hi |-> 0, nan |-> TRUE]

(* ---------------- the files the user can pick ---------------- *)
\* A path is the components of its directory, the parts of its base name
\* without extension, and its extension.
Path(d, s, x) == [dir |-> d, stem |-> s, ext |-> x]
ShpPath(i) == Path(<<"campus">>, <<ToString(i)>>, "shp")
\* a file that is not a shapefile; the dialog's filter does not prevent typing it
CsvPath == Path(<<"campus">>, <<"notes">>, "csv")
ShpPaths == {ShpPath(i) : i \in 1..NumFiles}
InputPaths == ShpPaths \cup {CsvPath}
\* a path the user may type in the save dialog instead of the offered one
OtherSavePath == Path(<<"elsewhere">>, <<"out">>, "shp")

\* geometries are axis-parallel boxes <<x0, y0, x1, y1>>
FileIndex(p) == CHOOSE i \in 1..NumFiles : ShpPath(i) = p
FileCRS(i) == IF i % 3 = 1 THEN "EPSG:4326" ELSE IF i % 3 = 2 THEN "EPSG:3857" ELSE NoCRS
FileGeoms(i) ==
    IF i % 4 = 0 THEN <<>>
    ELSE LET x == i % (MaxCoord + 1) IN << <<2 * x, 0, 2 * x + 2, 2 * i>> >>

\* what gpd.read_file returns for a readable path: a GeoDataFrame, or for a
\* file without geometry a plain DataFrame (geo = FALSE, no crs attribute)
Content(p) ==
    IF p.ext = "shp"
    THEN [geo |-> TRUE, crs |-> FileCRS(FileIndex(p)),
          geoms |-> FileGeoms(FileIndex(p))]
    ELSE [geo |-> FALSE, crs |-> NoCRS, geoms |-> <<>>]

\* where a library call raises in one run, and the text of the exception
IOErrors == {"PermissionError", "DriverError"}
NoFault == <<"none", "">>
BasemapFaults ==
    {NoFault, <<"display", "RuntimeError">>, <<"bounds", "RuntimeError">>}
        \cup {<<"read", e>> : e \in IOErrors}
OverlayFaults ==
    {NoFault, <<"to_crs", "RuntimeError">>, <<"display", "RuntimeError">>,
     <<"centroid", "RuntimeError">>, <<"makedirs", "PermissionError">>}
        \cup {<<"read", e>> : e \in IOErrors}
        \cup {<<"write", e>> : e \in IOErrors}

(* ---------------- state ---------------- *)
VARIABLES
    basemap,            \* win.basemap
    basemap_xlim,       \* win.basemap_xlim
    basemap_ylim,       \* win.basemap_ylim
    gdf,                \* win.gdf
    open_file_action,   \* win.open_file_action.isEnabled()
    statusBar,          \* the message in the status bar
    canvas,             \* what win.canvas shows
    dirs,               \* the output directories that exist on disk
    run                 \* what the last handler did (dialogs, files, stages)

vars == <<basemap, basemap_xlim, basemap_ylim, gdf, open_file_action,
          statusBar, canvas, dirs, run>>

\* status bar messages: which message it is and, for the two messages that
\* quote an exception, its text; the file path that three messages quote is
\* recorded in the run instead
Msg(k, e) == [kind |-> k, err |-> e]

\* the log of one handler run: the handler, the orchestrator states it went
\* through, the dialogs it showed, the extension of the path the file chooser
\* returned (None when it was declined; the path is in read), the status
\* messages it showed, how it ended and at which step it failed, the files it
\* read, the crs handed to centroid extraction, the path offered
\* by and the answer to the save dialog, the directories and files it wrote,
\* and how the window's attributes after it compare with those before it
NewRun(a) ==
    [action |-> a, trace |-> <<>>, dialogs |-> <<>>, picked |-> None,
     messages |-> <<>>, outcome |-> "Running",
     failedAt |-> "", read |-> <<>>, extracted |-> None, offered |-> None,
     answer |-> None, made |-> {}, written |-> {},
     hadBasemap |-> FALSE, hadExtent |-> FALSE, keptBasemap |-> TRUE,
     keptExtent |-> TRUE, keptOverlay |-> TRUE, keptEnabled |-> TRUE]

\* the window and its surroundings as one value, threaded through a handler;
\* exc is the exception in flight, ret is set once the handler has returned
Win ==
    [basemap |-> basemap, basemap_xlim |-> basemap_xlim,
     basemap_ylim |-> basemap_ylim, gdf |-> gdf,
     open_file_action |-> open_file_action, statusBar |-> statusBar,
     canvas |-> canvas, dirs |-> dirs, run |-> run,
     exc |-> None, ret |-> FALSE, stage |-> ""]

Commit(w) ==
    /\ basemap' = w.basemap
    /\ basemap_xlim' = w.basemap_xlim
    /\ basemap_ylim' = w.basemap_ylim
    /\ gdf' = w.gdf
    /\ open_file_action' = w.open_file_action
    /\ statusBar' = w.statusBar
    /\ canvas' = w.canvas
    /\ dirs' = w.dirs
    /\ run' = [w.run EXCEPT
                 !.hadBasemap = (basemap # None),
                 !.hadExtent = (basemap_xlim # None /\ basemap_ylim # None),
                 !.keptBasemap = (w.basemap = basemap),
                 !.keptExtent = (w.basemap_xlim = basemap_xlim
                                 /\ w.basemap_ylim = basemap_ylim),
                 !.keptOverlay = (w.gdf = gdf),
                 !.keptEnabled = (w.open_file_action = open_file_action)]

\* one statement of a handler: skipped once an exception is in flight or the
\* handler has returned
Then(w, F(_)) == IF w.exc # None \/ w.ret THEN w ELSE F(w)
Raise(w, e) == [w EXCEPT !.exc = Some(e), !.run.failedAt = w.stage]
Return(w, o) == [w EXCEPT !.ret = TRUE, !.run.outcome = o]
Enter(w, s) == [w EXCEPT !.stage = s, !.run.trace = Append(w.run.trace, s)]
Picked(choice) == IF choice = None THEN None ELSE Some(choice[1].ext)
ShowMessage(w, m) ==
    [w EXCEPT !.statusBar = m, !.run.messages = Append(w.run.messages, m.kind)]

EmptyCanvas == [layers |-> <<>>, xlim |-> None, ylim |-> None]

Init ==
    /\ basemap = None
    /\ basemap_xlim = None
    /\ basemap_ylim = None
    /\ gdf = None
    /\ open_file_action = FALSE
    /\ statusBar = Msg("ready", "")
    /\ canvas = EmptyCanvas
    /\ dirs = {}
    /\ run = NewRun("init")
(* ---------------- geometry ---------------- *)
SeqRange(s) == {s[k] : k \in 1..Len(s)}
MinOf(S) == CHOOSE m \in S : \A n \in S : m <= n
MaxOf(S) == CHOOSE m \in S : \A n \in S : m >= n

\* GeoDataFrame.total_bounds: (x_min, y_min, x_max, y_max) over all features,
\* an array of nan for a dataset without features
total_bounds(ds) ==
    IF ds.geoms = <<>>
    THEN [nan |-> TRUE, x_min |-> 0, y_min |-> 0, x_max |-> 0, y_max |-> 0]
    ELSE [nan |-> FALSE,
          x_min |-> MinOf({g[1] : g \in SeqRange(ds.geoms)}),
          y_min |-> MinOf({g[2] : g \in SeqRange(ds.geoms)}),
          x_max |-> MaxOf({g[3] : g \in SeqRange(ds.geoms)}),
          y_max |-> MaxOf({g[4] : g \in SeqRange(ds.geoms)})]

\* the coordinate transform between two reference systems: each system has
\* its own origin, so a coordinate shifts by the difference of the origins
Origin(crs) == IF crs = "EPSG:3857" THEN 10 ELSE 0
Transform(g, from, to) ==
    LET d == Origin(to) - Origin(from)
    IN  <<g[1] + d, g[2] + d, g[3] + d, g[4] + d>>

\* to_crs taking a dataset without crs to be in the target system already
to_crs_guess(ds, crs) ==
    IF crs = NoCRS THEN [ok |-> FALSE, err |-> "NoTargetCRS"]
    ELSE IF ds.crs = NoCRS THEN [ok |-> TRUE, val |-> [ds EXCEPT !.crs = crs]]
    ELSE [ok |-> TRUE,
          val |-> [ds EXCEPT !.crs = crs,
                     !.geoms = [k \in 1..Len(ds.geoms) |->
                                    Transform(ds.geoms[k], ds.crs, crs)]]]

\* GeoDataFrame.to_crs: raises for a dataset without crs and for a target of
\* None, else transforms every geometry and sets the crs
to_crs(ds, crs) ==
    IF ds.crs = NoCRS THEN [ok |-> FALSE, err |-> "NaiveGeometries"]
    ELSE IF crs = NoCRS THEN [ok |-> FALSE, err |-> "NoTargetCRS"]
    ELSE [ok |-> TRUE,
          val |-> [ds EXCEPT !.crs = crs,
                     !.geoms = [k \in 1..Len(ds.geoms) |->
                                    Transform(ds.geoms[k], ds.crs, crs)]]]

\* GeoSeries.centroid: one point per feature, in doubled coordinates so that
\* the midpoint of a box stays an integer
centroid(ds) ==
    [k \in 1..Len(ds.geoms) |->
        <<ds.geoms[k][1] + ds.geoms[k][3], ds.geoms[k][2] + ds.geoms[k][4]>>]

(* ---------------- display_basemap ---------------- *)
\* canvas.axes.clear(); basemap.plot(...); canvas.draw()
display_basemap(w, bm, fault) ==
    LET cleared == [w EXCEPT !.canvas = EmptyCanvas]
    IN  IF bm = None THEN Raise(cleared, "AttributeError")
        ELSE IF ~bm[1].geo THEN Raise(cleared, "TypeError")
        ELSE IF fault[1] = "display" THEN Raise(cleared, fault[2])
        ELSE [cleared EXCEPT !.canvas.layers = <<"basemap">>]

(* ---------------- open_basemap ---------------- *)
\* basemap = gpd.read_file(file_path); win.basemap = basemap
read_basemap(w, p, fault) ==
    IF fault[1] = "read" THEN Raise(w, fault[2])
    ELSE [w EXCEPT !.basemap = Some(Content(p)),
                   !.run.read = Append(w.run.read, p)]

\* (x_min, x_max) and (y_min, y_max) of a total_bounds array
xlim_of(b) == IF b.nan THEN NanLim ELSE Lim(b.x_min, b.x_max)
ylim_of(b) == IF b.nan THEN NanLim ELSE Lim(b.y_min, b.y_max)

\* x_min, y_min, x_max, y_max = basemap.total_bounds and the two assignments
save_bounds(w, fault) ==
    IF ~w.basemap[1].geo THEN Raise(w, "AttributeError")
    ELSE IF fault[1] = "bounds" THEN Raise(w, fault[2])
    ELSE [w EXCEPT !.basemap_xlim = Some(xlim_of(total_bounds(w.basemap[1]))),
                   !.basemap_ylim = Some(ylim_of(total_bounds(w.basemap[1])))]

enable_open_file(w) == [w EXCEPT !.open_file_action = TRUE]

\* the except clause of open_basemap
basemap_except(w) ==
    IF w.exc = None THEN Return(w, "Done")
    ELSE Return(ShowMessage([w EXCEPT !.exc = None],
                            Msg("basemap_failed", w.exc[1])), "Failed")

open_basemap(w0, choice, fault) ==
    LET w == [w0 EXCEPT !.run = [NewRun("open_basemap") EXCEPT
                                    !.dialogs = <<"open">>, !.picked = Picked(choice)]]
    IN  IF choice = None THEN Return(w, "Cancelled")
        ELSE
        LET p  == choice[1]
            s1 == read_basemap([w EXCEPT !.stage = "read"], p, fault)
            s2 == Then(s1, LAMBDA x : ShowMessage(x, Msg("basemap_loaded", "")))
            s3 == Then(s2, LAMBDA x : display_basemap([x EXCEPT !.stage = "display"],
                                                      x.basemap, fault))
            s4 == Then(s3, LAMBDA x : save_bounds([x EXCEPT !.stage = "bounds"], fault))
            s5 == Then(s4, enable_open_file)
        IN  basemap_except(s5)

(* ---------------- MainWindow.clear_basemap ---------------- *)
\* clear_basemap without its last statement, setEnabled(False)
clear_basemap_keeps_enabled(w) ==
    Return([w EXCEPT !.basemap = None,
                     !.basemap_xlim = None,
                     !.basemap_ylim = None,
                     !.canvas = EmptyCanvas,
                     !.statusBar = Msg("basemap_cleared", ""),
                     !.run = [NewRun("clear_basemap") EXCEPT
                                !.messages = <<"basemap_cleared">>]], "Done")

\* clear_basemap without the reset of the two limits
clear_basemap_keeps_extent(w) ==
    Return([w EXCEPT !.basemap = None,
                     !.canvas = EmptyCanvas,
                     !.statusBar = Msg("basemap_cleared", ""),
                     !.open_file_action = FALSE,
                     !.run = [NewRun("clear_basemap") EXCEPT
                                !.messages = <<"basemap_cleared">>]], "Done")

clear_basemap(w) ==
    Return([w EXCEPT !.basemap = None,
                     !.basemap_xlim = None,
                     !.basemap_ylim = None,
                     !.canvas = EmptyCanvas,
                     !.statusBar = Msg("basemap_cleared", ""),
                     !.open_file_action = FALSE,
                     !.run = [NewRun("clear_basemap") EXCEPT
                                !.messages = <<"basemap_cleared">>]], "Done")

(* ---------------- display_and_save_shp_data ---------------- *)
\* display_basemap(win.basemap, canvas); gdf.plot(ax=canvas.axes, ...)
plot_overlay(w, fault) ==
    Then(display_basemap(w, w.basemap, fault),
         LAMBDA x : [x EXCEPT !.canvas.layers = Append(x.canvas.layers, "overlay")])

\* position_points = gdf.geometry.centroid; position_points.plot(...)
extract_centroids(w, g, fault) ==
    IF fault[1] = "centroid" THEN Raise(w, fault[2])
    ELSE [w EXCEPT !.run.extracted = Some(g.crs),
                   !.canvas.layers = Append(w.canvas.layers, "points")]

\* Axes.set_xlim / set_ylim with a stored pair: None leaves the limit alone,
\* nan raises
set_lim(w, axis, lim) ==
    IF lim = None THEN w
    ELSE IF lim[1].nan THEN Raise(w, "AxisLimitsNaN")
    ELSE IF axis = "x" THEN [w EXCEPT !.canvas.xlim = lim]
    ELSE [w EXCEPT !.canvas.ylim = lim]

\* set_frame fitting the frame to the overlay and keeping that as the extent
set_frame_refit(w) ==
    [w EXCEPT !.basemap_xlim = Some(xlim_of(total_bounds(w.gdf[1]))),
              !.basemap_ylim = Some(ylim_of(total_bounds(w.gdf[1]))),
              !.canvas.xlim = Some(xlim_of(total_bounds(w.gdf[1]))),
              !.canvas.ylim = Some(ylim_of(total_bounds(w.gdf[1])))]

\* canvas.axes.set_xlim(win.basemap_xlim); canvas.axes.set_ylim(win.basemap_ylim)
set_frame(w) ==
    Then(set_lim(w, "x", w.basemap_xlim), LAMBDA x : set_lim(x, "y", x.basemap_ylim))

\* os.path.join(os.path.dirname(file_path), "zhuhai_bnu_all_point")
output_dir(file_path) == Append(file_path.dir, "zhuhai_bnu_all_point")
\* default_path placing the file next to its source, outside the subdirectory
default_path_beside_source(file_path) ==
    Path(file_path.dir, Append(file_path.stem, "_point"), "shp")

\* os.path.join(output_dir, f"{base_name}_point.shp")
default_path(file_path) ==
    Path(output_dir(file_path), Append(file_path.stem, "_point"), "shp")

\* if not os.path.exists(output_dir): os.makedirs(output_dir)
make_output_dir(w, file_path, fault) ==
    IF output_dir(file_path) \in w.dirs THEN w
    ELSE IF fault[1] = "makedirs" THEN Raise(w, fault[2])
    ELSE [w EXCEPT !.dirs = w.dirs \cup {output_dir(file_path)},
                   !.run.made = w.run.made \cup {output_dir(file_path)}]

\* QFileDialog.getSaveFileName with the default path offered; the answer is
\* the empty string, the offered path or a path typed by the user
SaveChoices == {"cancel", "default", "other"}
position_file_path(file_path, save) ==
    IF save = "cancel" THEN None
    ELSE IF save = "default" THEN Some(default_path(file_path))
    ELSE Some(OtherSavePath)
ask_save_path(w, file_path, save) ==
    [w EXCEPT !.run.dialogs = Append(w.run.dialogs, "save"),
              !.run.offered = Some(default_path(file_path)),
              !.run.answer = position_file_path(file_path, save)]

\* GeoDataFrame(geometry=position_points, crs=gdf.crs).to_file(path)
to_file(w, g, path, fault) ==
    IF fault[1] = "write" THEN Raise(w, fault[2])
    ELSE [w EXCEPT !.run.written = w.run.written \cup
                      {[path |-> path, crs |-> g.crs, points |-> centroid(g)]}]

\* save_points falling back to the offered path when the dialog is cancelled
save_points_to_default(w, g, chosen, fault) ==
    LET path == IF chosen # None THEN chosen ELSE w.run.offered
    IN  Then(Then(to_file(Enter(w, "Writing"), g, path[1], fault),
                  LAMBDA x : ShowMessage(x, Msg("points_saved", ""))),
             LAMBDA x : Return(x, "Done"))

\* the if/else on position_file_path that ends display_and_save_shp_data
save_points(w, g, chosen, fault) ==
    IF chosen # None
    THEN Then(Then(to_file(Enter(w, "Writing"), g, chosen[1], fault),
                   LAMBDA x : ShowMessage(x, Msg("points_saved", ""))),
              LAMBDA x : Return(x, "Done"))
    ELSE Return(ShowMessage(w, Msg("save_cancelled", "")), "Cancelled")

\* display_and_save_shp_data asking for the path and saving before it draws
\* and extracts
display_and_save_first(w, g, file_path, save, fault) ==
    LET s1 == make_output_dir(Enter(w, "AwaitingSaveChoice"), file_path, fault)
        s2 == Then(s1, LAMBDA x : ask_save_path(x, file_path, save))
        s3 == Then(s2, LAMBDA x : save_points(x, g, x.run.answer, fault))
        s4 == [s3 EXCEPT !.ret = FALSE]
        s5 == Then(s4, LAMBDA x : plot_overlay([x EXCEPT !.stage = "display"], fault))
        s6 == Then(s5, LAMBDA x : extract_centroids(Enter(x, "Extracting"), g, fault))
    IN  Then(s6, LAMBDA x : [set_frame(x) EXCEPT !.ret = TRUE])

display_and_save_shp_data(w, g, file_path, save, fault) ==
    IF ~g.geo THEN Return([w EXCEPT !.run.failedAt = "isinstance"], "Failed")
    ELSE
    LET s1 == plot_overlay([w EXCEPT !.stage = "display"], fault)
        s2 == Then(s1, LAMBDA x : extract_centroids(Enter(x, "Extracting"), g, fault))
        s3 == Then(s2, LAMBDA x : set_frame([x EXCEPT !.stage = "set_lim"]))
        s4 == Then(s3, LAMBDA x : make_output_dir(Enter(x, "AwaitingSaveChoice"),
                                                  file_path, fault))
        s5 == Then(s4, LAMBDA x : ask_save_path(x, file_path, save))
    IN  Then(s5, LAMBDA x : save_points(x, g, x.run.answer, fault))

(* ---------------- open_shp_file ---------------- *)
\* hasattr(win, "basemap"): MainWindow.__init__ assigns the attribute, so the
\* window always has it, whatever its value
hasattr_basemap(w) == "basemap" \in DOMAIN w

\* endswith_shp accepting every path
endswith_any(file_path) == TRUE

\* file_path.endswith(".shp")
endswith_shp(file_path) == file_path.ext = "shp"

\* gdf = gpd.read_file(file_path)
read_overlay(w, p, fault) ==
    IF fault[1] = "read" THEN Raise(w, fault[2])
    ELSE [w EXCEPT !.run.read = Append(w.run.read, p)]

\* the comparison taking two undefined reference systems to differ
crs_differ_or_undefined(g, bm) == g.crs # bm.crs \/ g.crs = NoCRS

\* gdf.crs != win.basemap.crs: None equals None
crs_differ(g, bm) == g.crs # bm.crs

\* reconcile without the conversion: the dataset goes on as it was read
reconcile_no_transform(g, bm, fault) ==
    IF ~g.geo \/ bm = None THEN [ok |-> FALSE, err |-> "AttributeError"]
    ELSE IF ~bm[1].geo THEN [ok |-> FALSE, err |-> "AttributeError"]
    ELSE [ok |-> TRUE, val |-> g]

\* if gdf.crs != win.basemap.crs: gdf = gdf.to_crs(win.basemap.crs)
\* the result is the dataset to go on with, or the exception raised
reconcile(g, bm, fault) ==
    IF ~g.geo \/ bm = None THEN [ok |-> FALSE, err |-> "AttributeError"]
    ELSE IF ~bm[1].geo THEN [ok |-> FALSE, err |-> "AttributeError"]
    ELSE IF ~crs_differ(g, bm[1]) THEN [ok |-> TRUE, val |-> g]
    ELSE IF to_crs(g, bm[1].crs).ok /\ fault[1] = "to_crs"
         THEN [ok |-> FALSE, err |-> fault[2]]
    ELSE to_crs(g, bm[1].crs)

\* the assignment of line 96 with the wrong attribute
store_overlay_as_basemap(w, g) == [w EXCEPT !.basemap = Some(g)]

\* win.gdf = gdf
store_overlay(w, g) == [w EXCEPT !.gdf = Some(g)]

\* the except clause of open_shp_file swallowing the exception
overlay_except_silent(w) ==
    IF w.exc = None THEN w
    ELSE Return([w EXCEPT !.exc = None], "Failed")

\* the except clause of open_shp_file
overlay_except(w) ==
    IF w.exc = None THEN w
    ELSE Return(ShowMessage([w EXCEPT !.exc = None],
                            Msg("open_failed", w.exc[1])), "Failed")

\* the try block of open_shp_file
overlay_try(w, p, save, fault) ==
    LET s1 == read_overlay([w EXCEPT !.stage = "read"], p, fault)
        r  == reconcile(Content(p), s1.basemap, fault)
        s2 == Then(s1, LAMBDA x : IF r.ok THEN Enter(x, "Reconciling")
                                  ELSE Raise(Enter(x, "Reconciling"), r.err))
        s3 == Then(s2, LAMBDA x : store_overlay(x, r.val))
        s4 == Then(s3, LAMBDA x : ShowMessage(x, Msg("file_opened", "")))
    IN  Then(s4, LAMBDA x : display_and_save_shp_data(x, r.val, p, save, fault))

\* open_shp_file without the return on an empty path: the empty path goes on
\* to the extension check
open_shp_file_no_cancel(w0, choice, save, fault) ==
    LET w == Enter([w0 EXCEPT !.run = NewRun("open_shp_file")], "Validating")
    IN  IF ~hasattr_basemap(w)
        THEN Return(ShowMessage([w EXCEPT !.run.failedAt = "Validating"],
                                Msg("need_basemap", "")), "Failed")
        ELSE
        LET d == [w EXCEPT !.run.dialogs = <<"open">>, !.run.picked = Picked(choice)]
        IN  IF choice = None \/ ~endswith_shp(choice[1])
            THEN Return(ShowMessage([d EXCEPT !.run.failedAt = "Validating"],
                                    Msg("format_error", "")), "Failed")
            ELSE overlay_except(overlay_try(d, choice[1], save, fault))

open_shp_file(w0, choice, save, fault) ==
    LET w == Enter([w0 EXCEPT !.run = NewRun("open_shp_file")], "Validating")
    IN  IF ~hasattr_basemap(w)
        THEN Return(ShowMessage([w EXCEPT !.run.failedAt = "Validating"],
                                Msg("need_basemap", "")), "Failed")
        ELSE
        LET d == [w EXCEPT !.run.dialogs = <<"open">>, !.run.picked = Picked(choice)]
        IN  IF choice = None THEN Return(d, "Cancelled")
            ELSE IF ~endswith_shp(choice[1])
            THEN Return(ShowMessage([d EXCEPT !.run.failedAt = "Validating"],
                                    Msg("format_error", "")), "Failed")
            ELSE overlay_except(overlay_try(d, choice[1], save, fault))

(* ---------------- actions ---------------- *)
\* the answers and faults of one run of open_basemap: a fault needs a chosen file
BasemapInputs ==
    {in \in ({None} \cup {Some(p) : p \in ShpPaths}) \X BasemapFaults :
        (in[1] = None) => in[2] = NoFault}

OpenBasemap ==
    \E in \in BasemapInputs : Commit(open_basemap(Win, in[1], in[2]))

ClearBasemap == Commit(clear_basemap(Win))

\* open_shp_file is a module-level function: the toolbar action calls it, and
\* nothing in the function itself depends on the action being enabled
OverlayInputs ==
    {in \in ({None} \cup {Some(p) : p \in InputPaths}) \X SaveChoices \X OverlayFaults :
        \* the answer of the save dialog is an input only when no library call
        \* before the dialog raises, and a fault needs a file that is read
        /\ (in[1] = None \/ in[3][1] \notin {"none", "write"}) => in[2] = "cancel"
        /\ (in[3][1] = "write") => in[2] # "cancel"
        /\ (in[1] = None \/ ~endswith_shp(in[1][1])) => in[3] = NoFault}

OpenShpFile ==
    \E in \in OverlayInputs : Commit(open_shp_file(Win, in[1], in[2], in[3]))

Next == OpenBasemap \/ ClearBasemap \/ OpenShpFile

Spec == Init /\ [][Next]_vars
(* ======================= properties ======================= *)
IsOverlayRun == run.action = "open_shp_file"
IsBasemapRun == run.action = "open_basemap"
\* the basemap and its extent are what they were when the last handler started
BasemapKept == run.keptBasemap /\ run.keptExtent
OverlayKept == run.keptOverlay

\* C1: open_shp_file invoked with no basemap set fails with the "load a
\* basemap first" message, shows no dialog, and leaves basemap, extent and
\* overlay as they were.
C1_NoBasemapRejected ==
    (IsOverlayRun /\ ~run.hadBasemap)
        => /\ run.outcome = "Failed"
           /\ statusBar.kind = "need_basemap"
           /\ run.dialogs = <<>>
           /\ BasemapKept
           /\ OverlayKept

\* C2: whenever no basemap is set, the load-overlay toolbar action is disabled.
C2_DisabledWithoutBasemap == (basemap = None) => ~open_file_action

\* a clear after a basemap had been loaded and an overlay opened on it
C2_Witness ==
    /\ run.action = "clear_basemap"
    /\ ~run.keptEnabled
    /\ basemap = None
    /\ gdf # None
    /\ ~open_file_action

\* C3: a run of open_shp_file leaves win.basemap, win.basemap_xlim and
\* win.basemap_ylim as they were, however it ends; only open_basemap and
\* clear_basemap change them.
C3_OverlayKeepsBasemap ==
    /\ IsOverlayRun => BasemapKept
    /\ ~BasemapKept => run.action \in {"open_basemap", "clear_basemap"}

\* an overlay run that went all the way to the written file, on a set basemap
C3_Witness ==
    /\ IsOverlayRun
    /\ run.outcome = "Done"
    /\ run.written # {}
    /\ basemap # None /\ basemap_xlim # None
    /\ gdf # None /\ gdf # basemap /\ ~run.keptOverlay

\* C4: a run of open_basemap that fails inside its try block reports the
\* failure and leaves basemap and extent as they were.
C4_FailedLoadKeepsState ==
    (IsBasemapRun /\ run.outcome = "Failed")
        => /\ statusBar.kind = "basemap_failed"
           /\ BasemapKept

Stages == <<"Validating", "Reconciling", "Extracting", "AwaitingSaveChoice", "Writing">>
IsPrefix(s, t) == Len(s) <= Len(t) /\ \A k \in 1..Len(s) : s[k] = t[k]
\* the status messages that report an error
ErrorKinds == {"basemap_failed", "need_basemap", "format_error", "open_failed"}
SaveAsked == run.dialogs = <<"open", "save">>
\* the crs of the overlay file as it was read in the last run
SourceCRS == Content(run.read[1]).crs
BothDefinedAndDiffer ==
    /\ run.read # <<>> /\ basemap # None
    /\ SourceCRS \in CRSs /\ basemap[1].crs \in CRSs
    /\ SourceCRS # basemap[1].crs

\* C6: a cancelled save dialog ends the run as Cancelled, with no file written
\* and no error reported; a file is written only at the path the dialog returned.
C6_SaveCancelled ==
    IsOverlayRun =>
        /\ (SaveAsked /\ run.answer = None)
              => /\ run.outcome = "Cancelled"
                 /\ run.written = {}
                 /\ run.failedAt = ""
                 /\ statusBar.kind \notin ErrorKinds
        /\ \A f \in run.written : run.answer # None /\ f.path = run.answer[1]

C6_Witness ==
    /\ IsOverlayRun
    /\ SaveAsked /\ run.answer = None
    /\ run.outcome = "Cancelled"
    /\ statusBar.kind = "save_cancelled"

\* the reports that a failed read of the overlay file leaves in the status bar
ReadFailureReports == {Msg("open_failed", e) : e \in IOErrors}

\* C7: a failure while writing the point layer ends the run as Failed with a
\* report that no failure to read the overlay file produces.
C7_WriteErrorDistinct ==
    (IsOverlayRun /\ run.failedAt = "Writing")
        => /\ run.outcome = "Failed"
           /\ statusBar \notin ReadFailureReports

\* C8: a load-overlay run goes through the orchestrator states in their fixed
\* order without skipping any, ends as exactly one of Done, Cancelled and
\* Failed, and writes a file only after the checks passed, the crs was
\* reconciled, the centroids were extracted and the dialog returned a path.
C8_StageOrder ==
    IsOverlayRun =>
        /\ run.trace # <<>> /\ IsPrefix(run.trace, Stages)
        /\ run.outcome \in {"Done", "Cancelled", "Failed"}
        /\ (run.outcome = "Done") <=> (run.written # {})
        /\ (run.outcome = "Done") => run.trace = Stages
        /\ (run.written # {})
              => /\ run.trace = Stages
                 /\ basemap # None
                 /\ run.read # <<>> /\ endswith_shp(run.read[1])
                 /\ gdf # None /\ gdf[1].crs = basemap[1].crs
                 /\ run.extracted = Some(gdf[1].crs)
                 /\ SaveAsked /\ run.answer # None

C8_Witness ==
    /\ IsOverlayRun
    /\ run.outcome = "Done"
    /\ run.trace = Stages
    /\ run.written # {}

\* C9: when overlay and basemap both have a crs and the two differ, the
\* dataset stored as win.gdf, the dataset given to the centroid extraction and
\* the written point layer carry the basemap's crs; no point layer is written
\* with another crs than the basemap's.
C9_ReprojectedToBasemap ==
    IsOverlayRun =>
        /\ \A f \in run.written : basemap # None /\ f.crs = basemap[1].crs
        /\ BothDefinedAndDiffer =>
              /\ (Len(run.trace) >= 2 /\ run.failedAt # "Reconciling")
                    => /\ gdf # None
                       /\ gdf[1].crs = basemap[1].crs
                       /\ gdf[1].geoms =
                            [k \in 1..Len(Content(run.read[1]).geoms) |->
                                Transform(Content(run.read[1]).geoms[k],
                                          SourceCRS, basemap[1].crs)]
              /\ (run.extracted # None) => run.extracted = Some(basemap[1].crs)

C9_Witness ==
    /\ IsOverlayRun
    /\ BothDefinedAndDiffer
    /\ run.outcome = "Done"
    /\ \E f \in run.written : f.crs = basemap[1].crs /\ f.crs # SourceCRS

NaiveOverlayOnDefinedBasemap ==
    /\ IsOverlayRun
    /\ run.read # <<>> /\ basemap # None
    /\ SourceCRS = NoCRS /\ basemap[1].crs \in CRSs

\* C10: an overlay without crs on a basemap with a crs fails while reconciling,
\* with the refusal to transform geometries without crs as the reason: the
\* overlay is not stored, no save dialog is shown and no file is written.
C10_NaiveOverlayFails ==
    NaiveOverlayOnDefinedBasemap
        => /\ run.outcome = "Failed"
           /\ run.failedAt = "Reconciling"
           /\ statusBar = Msg("open_failed", "NaiveGeometries")
           /\ run.keptOverlay
           /\ run.extracted = None
           /\ run.dialogs = <<"open">>
           /\ run.written = {}

C10_Witness ==
    /\ NaiveOverlayOnDefinedBasemap
    /\ run.outcome = "Failed"
    /\ run.trace = <<"Validating", "Reconciling">>
Last(q) == q[Len(q)]

\* C11: a run of open_basemap or open_shp_file that ends neither as Done nor
\* as Cancelled shows a status message that describes the failure; no such
\* run returns without one.
C11_FailureReported ==
    (run.action \in {"open_basemap", "open_shp_file"}
        /\ run.outcome \notin {"Done", "Cancelled"})
        => /\ run.messages # <<>>
           /\ Last(run.messages) \in ErrorKinds
           /\ statusBar.kind = Last(run.messages)
           /\ (statusBar.kind \in {"basemap_failed", "open_failed"})
                 => statusBar.err # ""

\* an overlay run that failed after the file had been opened and announced
C11_Witness ==
    /\ IsOverlayRun
    /\ run.outcome = "Failed"
    /\ run.messages = <<"file_opened", "open_failed">>
    /\ statusBar.kind = "open_failed"

\* xl and yl are the bounding box of dataset B: the least and greatest
\* coordinates of its geometries, nan when it has none
IsBoundingBox(B, xl, yl) ==
    IF B.geoms = <<>> THEN xl.nan /\ yl.nan
    ELSE /\ ~xl.nan /\ ~yl.nan
         /\ \A k \in 1..Len(B.geoms) :
               /\ xl.lo <= B.geoms[k][1] /\ B.geoms[k][3] <= xl.hi
               /\ yl.lo <= B.geoms[k][2] /\ B.geoms[k][4] <= yl.hi
         /\ \E k \in 1..Len(B.geoms) : B.geoms[k][1] = xl.lo
         /\ \E k \in 1..Len(B.geoms) : B.geoms[k][3] = xl.hi
         /\ \E k \in 1..Len(B.geoms) : B.geoms[k][2] = yl.lo
         /\ \E k \in 1..Len(B.geoms) : B.geoms[k][4] = yl.hi

\* C12: clear_basemap unsets basemap and extent from any state, and a
\* successful open_basemap of a file B then stores B as basemap and the
\* bounding box of B as extent, whatever was loaded before.
C12_ClearThenLoad ==
    /\ (run.action = "clear_basemap")
          => basemap = None /\ basemap_xlim = None /\ basemap_ylim = None
    /\ (IsBasemapRun /\ run.outcome = "Done")
          => /\ run.read # <<>>
             /\ basemap = Some(Content(run.read[1]))
             /\ basemap_xlim # None /\ basemap_ylim # None
             /\ IsBoundingBox(Content(run.read[1]), basemap_xlim[1], basemap_ylim[1])

\* a basemap loaded after a clear, where the overlay still held was aligned to
\* an earlier basemap with another crs
C12_Witness ==
    /\ IsBasemapRun
    /\ run.outcome = "Done"
    /\ ~run.hadBasemap /\ ~run.hadExtent
    /\ gdf # None /\ gdf[1].crs # basemap[1].crs
    /\ basemap[1].geoms # <<>>

\* C13: open_basemap on a file without features ends in failure and stores no
\* extent for it.
C13_EmptyBasemapRejected ==
    (IsBasemapRun /\ run.read # <<>> /\ Content(run.read[1]).geoms = <<>>)
        => /\ run.outcome = "Failed"
           /\ run.keptExtent

C15_FrameIsExtent ==
    (IsOverlayRun /\ run.hadExtent /\ run.extracted # None)
        => /\ canvas.xlim = basemap_xlim
           /\ canvas.ylim = basemap_ylim

\* C16: a load-overlay run whose chosen path does not end in .shp fails while
\* validating, with the format message: nothing is read, win.gdf is kept, no
\* save dialog is shown, no directory is made and no file is written.
C16_WrongExtensionRejected ==
    (IsOverlayRun /\ run.picked # None /\ run.picked # Some("shp"))
        => /\ run.outcome = "Failed"
           /\ run.failedAt = "Validating"
           /\ run.trace = <<"Validating">>
           /\ statusBar.kind = "format_error"
           /\ run.read = <<>>
           /\ run.keptOverlay
           /\ run.dialogs = <<"open">>
           /\ run.made = {}
           /\ run.written = {}

\* a .csv path picked while an overlay from an earlier run is held
C16_Witness ==
    /\ IsOverlayRun
    /\ run.picked = Some("csv")
    /\ run.outcome = "Failed"
    /\ gdf # None /\ run.keptOverlay

\* an overlay file read on a basemap whose crs equals the file's, both being
\* undefined included
SameCRS ==
    /\ IsOverlayRun
    /\ run.read # <<>> /\ basemap # None
    /\ SourceCRS = basemap[1].crs

\* C17: when the overlay's crs equals the basemap's, both undefined included,
\* the run does not fail while reconciling and stores the dataset as it was
\* read; unless a later step fails it extracts the centroids and shows the
\* save dialog, and what it writes are the centroids of the dataset as read,
\* with the crs of the file.
C17_SameCRSPassThrough ==
    SameCRS
        => /\ Len(run.trace) >= 2
           /\ run.failedAt # "Reconciling"
           /\ gdf = Some(Content(run.read[1]))
           /\ (run.failedAt \notin {"display", "Extracting"})
                 => run.extracted = Some(SourceCRS)
           /\ (run.failedAt \in {"", "Writing"}) => SaveAsked
           /\ (run.failedAt = "" /\ run.answer # None) => run.written # {}
           /\ \A f \in run.written :
                 /\ f.crs = SourceCRS
                 /\ f.points = centroid(Content(run.read[1]))

\* an overlay without crs on a basemap without crs, written without crs
C17_Witness ==
    /\ SameCRS
    /\ SourceCRS = NoCRS
    /\ run.outcome = "Done"
    /\ \E f \in run.written : f.crs = NoCRS /\ f.points # <<>>

\* C18: a declined file chooser in open_basemap or open_shp_file ends the run
\* as Cancelled with no message shown; basemap, extent, overlay and the
\* enabled flag are what they were, and nothing is read, made or written.
C18_DeclinedChooser ==
    (run.action \in {"open_basemap", "open_shp_file"}
        /\ run.dialogs # <<>> /\ run.picked = None)
        => /\ run.outcome = "Cancelled"
           /\ run.failedAt = ""
           /\ run.messages = <<>>
           /\ run.dialogs = <<"open">>
           /\ BasemapKept
           /\ OverlayKept
           /\ run.keptEnabled
           /\ run.read = <<>>
           /\ run.made = {}
           /\ run.written = {}

\* the chooser of open_shp_file declined with a basemap and an overlay held
\* and an error of an earlier run still in the status bar
C18_Witness ==
    /\ IsOverlayRun
    /\ run.picked = None
    /\ run.outcome = "Cancelled"
    /\ basemap # None /\ basemap_xlim # None /\ gdf # None
    /\ open_file_action
    /\ statusBar.kind \in ErrorKinds

\* C19: the extent is set exactly when a basemap is set and is then the
\* bounding box of that basemap, and the load-overlay action is enabled
\* exactly when a basemap is set.
C19_SessionConsistent ==
    /\ (basemap_xlim # None) <=> (basemap # None)
    /\ (basemap_ylim # None) <=> (basemap # None)
    /\ (basemap # None /\ basemap_xlim # None /\ basemap_ylim # None)
          => /\ basemap_xlim = Some(xlim_of(total_bounds(basemap[1])))
             /\ basemap_ylim = Some(ylim_of(total_bounds(basemap[1])))
    /\ open_file_action <=> (basemap # None)
====
